---- MODULE Spec2Model ----
(***************************************************************************)
(* A model of webtreemap's src/treemap.ts: the span selection of the       *)
(* squarified layout (TreeMap.selectSpan), the recursive layout pass       *)
(* (TreeMap.layout, TreeMap.render) and the address lookup                 *)
(* (getNodeIndex, TreeMap.getAddress).                                     *)
(*                                                                         *)
(* Numbers.  JavaScript numbers are modelled as exact rationals <<n, d>>   *)
(* (d > 0, lowest terms) extended with Infinity and NaN where the code can *)
(* divide by zero (the scores of selectSpan).  The only irrational value   *)
(* of the code, scale = sqrt(total / ((x2-x1)*(y2-y1))), is never stored:  *)
(* every value the code derives from it is rational, as scale occurs in    *)
(* them squared:                                                           *)
(*    space * space = scale^2 * (x2-x1)^2 = total * (x2-x1) / (y2-y1)      *)
(*    heightPx = sum / space / scale      = sum * (y2-y1) / total          *)
(*    widthPx  = size / height / scale    = size * (x2-x1) / sum           *)
(* Indices are 0-based as in the source; At(s, i) reads s[i] of the code.  *)
(***************************************************************************)
EXTENDS Integers, Sequences, FiniteSets, TLC

VARIABLES data, options, container, dom, stack, pc, strips, visits, lastAddress, span

vars == <<data, options, container, dom, stack, pc, strips, visits, lastAddress, span>>

layoutVars == <<data, options, container, dom, stack, pc, strips, visits, lastAddress>>

----------------------------------------------------------------------------
(* Bounds of the model *)

\* Largest weight of a child in an enumerated children list.
MaxSize == 2

\* Longest enumerated children list of the root.
MaxLen == 3

----------------------------------------------------------------------------
(* Program constants *)

\* layout: if ((x2 - x1) < 40) return;
MinWidth == 40

\* layout: if ((y2 - y1) < 100) return;
MinHeight == 100

\* layout: "We lose 2px due to the border."
Border == 2

\* layout: if (sum / total < 0.1) break;  0.1 = CutoffNum / CutoffDen
CutoffNum == 1

CutoffDen == 10

NODE_CSS_CLASS == "webtreemap-node"

CAPTION_CSS_CLASS == "webtreemap-caption"

----------------------------------------------------------------------------
(* Exact rational arithmetic for the finite numbers of the code *)

At(s, i) == s[i + 1]

Abs(n) == IF n < 0 THEN -n ELSE n

RECURSIVE GCD(_, _)
GCD(a, b) == IF b = 0 THEN a ELSE GCD(b, a % b)

\* The rational n/d (d # 0) in lowest terms with a positive denominator.
Q(n, d) ==
  LET g == GCD(Abs(n), Abs(d))
      s == IF d < 0 THEN -1 ELSE 1
  IN <<(s * n) \div g, (s * d) \div g>>

QInt(n) == <<n, 1>>

QAdd(a, b) == Q(a[1] * b[2] + b[1] * a[2], a[2] * b[2])

QSub(a, b) == Q(a[1] * b[2] - b[1] * a[2], a[2] * b[2])

QMul(a, b) ==
  LET g1 == GCD(Abs(a[1]), b[2])
      g2 == GCD(Abs(b[1]), a[2])
  IN Q((a[1] \div g1) * (b[1] \div g2), (a[2] \div g2) * (b[2] \div g1))

\* a / b for b # 0
QDiv(a, b) == QMul(a, Q(b[2], b[1]))

\* n1/d1 < n2/d2 for positive d1, d2, by comparing the continued fractions
\* (no product is formed, so the comparison cannot overflow).
RECURSIVE FracLess(_, _, _, _)
FracLess(n1, d1, n2, d2) ==
  LET q1 == n1 \div d1
      q2 == n2 \div d2
      r1 == n1 % d1
      r2 == n2 % d2
  IN IF q1 # q2 THEN q1 < q2
     ELSE IF r2 = 0 THEN FALSE
     ELSE IF r1 = 0 THEN TRUE
     ELSE FracLess(d2, r2, d1, r1)

QLess(a, b) == FracLess(a[1], a[2], b[1], b[2])

QLeq(a, b) == ~QLess(b, a)

\* Math.round(x): the integer nearest to x, ties towards +Infinity.
Round(a) == (2 * a[1] + a[2]) \div (2 * a[2])

----------------------------------------------------------------------------
(* JavaScript numbers that may be Infinity or NaN (the scores) *)

Fin(q) == [k |-> "fin", v |-> q]

Infinity == [k |-> "inf", v |-> <<1, 1>>]

NaN == [k |-> "nan", v |-> <<0, 1>>]

\* A division that yields 0 where the code divides by zero.
JSDivGuarded(a, b) == IF b[1] # 0 THEN Fin(QDiv(a, b)) ELSE Fin(QInt(0))

\* a / b of two finite, non-negative numbers: x/0 is Infinity, 0/0 is NaN.
JSDiv(a, b) ==
  IF b[1] # 0 THEN Fin(QDiv(a, b))
  ELSE IF a[1] = 0 THEN NaN ELSE Infinity

\* x > y of the code: false when either side is NaN.
JSGreater(x, y) ==
  IF x.k = "nan" \/ y.k = "nan" THEN FALSE
  ELSE IF y.k = "inf" THEN FALSE
  ELSE IF x.k = "inf" THEN TRUE
  ELSE QLess(y.v, x.v)

\* Math.max(x, y): NaN when either argument is NaN.
MathMax(x, y) ==
  IF x.k = "nan" \/ y.k = "nan" THEN NaN
  ELSE IF JSGreater(y, x) THEN y ELSE x

\* The truth value of a number used as a condition: 0 and NaN are falsy.
Truthy(x) == ~(x.k = "nan" \/ (x.k = "fin" /\ x.v[1] = 0))

----------------------------------------------------------------------------
(* Data: {size, children?}.  has = FALSE models an absent children field. *)

Leaf(s) == [size |-> s, has |-> FALSE, kids |-> <<>>]

Node(s, ks) == [size |-> s, has |-> TRUE, kids |-> ks]

----------------------------------------------------------------------------
(* TreeMap.selectSpan *)

\* A score that looks at the largest rectangle only.
ScoreOfMaxOnly(smin, smax, nextSum, space2) ==
  JSDiv(QMul(QInt(smax), space2), QInt(nextSum * nextSum))

\* const score = Math.max(smax * space * space / (nextSum * nextSum),
\*                        nextSum * nextSum / (smin * space * space));
\* space2 is space * space.
Score(smin, smax, nextSum, space2) ==
  MathMax(JSDiv(QMul(QInt(smax), space2), QInt(nextSum * nextSum)),
          JSDiv(QInt(nextSum * nextSum), QMul(QInt(smin), space2)))

\* The test without its "lastScore &&" guard.
WorseUnguarded(score, lastScore) == JSGreater(score, lastScore)

\* if (lastScore && score > lastScore) break;
Worse(score, lastScore) == Truthy(lastScore) /\ JSGreater(score, lastScore)

\* The for loop of selectSpan from candidate index end on; returns {end, sum}.
RECURSIVE selectSpanLoop(_, _, _, _, _, _, _)
selectSpanLoop(children, space2, end, smin, smax, sum, lastScore) ==
  IF ~(end < Len(children)) THEN [end |-> end, sum |-> sum]
  ELSE LET size == At(children, end).size
           smin1 == IF size < smin THEN size ELSE smin
           smax1 == IF size > smax THEN size ELSE smax
           nextSum == sum + size
           score == Score(smin1, smax1, nextSum, space2)
       IN IF Worse(score, lastScore)
          THEN [end |-> end, sum |-> sum]
          ELSE selectSpanLoop(children, space2, end + 1, smin1, smax1, nextSum, score)

\* selectSpan(children, space, start), given space2 = space * space.
selectSpan(children, space2, start) ==
  selectSpanLoop(children, space2, start,
                 At(children, start).size, At(children, start).size,
                 0, Fin(QInt(0)))

----------------------------------------------------------------------------
(* Options: newOptions(), newCaptionOptions(), and an Options customised    *)
(* from newOptions() with its own padding and spacing.                      *)

newOptions == [padding |-> <<0, 0, 0, 0>>, spacing |-> 0, caption |-> FALSE]

newCaptionOptions == [padding |-> <<14, 0, 0, 0>>, spacing |-> 0, caption |-> TRUE]

customOptions == [padding |-> <<2, 3, 5, 4>>, spacing |-> 1, caption |-> FALSE]

----------------------------------------------------------------------------
(* The DOM.  dom is the sequence of the elements created so far, in the     *)
(* order of creation; an element's id is its index and 0 is the container   *)
(* given to render.  Elements are only ever added with appendChild, so the  *)
(* children of a parent are ordered by id.  path (the child indices from    *)
(* the root Data to the Data passed to createNode) and rect (the unrounded  *)
(* x, y, widthPx, heightPx of layout) record what the element was made for. *)

NoRect == [x |-> QInt(0), y |-> QInt(0), w |-> QInt(0), h |-> QInt(0)]

NoStyle == [left |-> 0, width |-> 0, top |-> 0, height |-> 0]

Element(parent, cls, path, level, style, rect, strip) ==
  [parent |-> parent, cls |-> cls, path |-> path, level |-> level,
   style |-> style, rect |-> rect, strip |-> strip]

\* options.createNode(data, level) followed by container.appendChild(dom):
\* the new element, and with newCaptionOptions its caption child.
createNode(parent, path, level, style, rect, strip) ==
  LET id == Len(dom) + 1
      el == Element(parent, NODE_CSS_CLASS, path, level, style, rect, strip)
  IN IF options.caption
     THEN <<el, Element(id, CAPTION_CSS_CLASS, path, level, NoStyle, NoRect, strip)>>
     ELSE <<el>>

\* node.previousElementSibling (0: none)
RECURSIVE previousElementSibling(_, _)
previousElementSibling(node, k) ==
  IF k = 0 THEN 0
  ELSE IF dom[k].parent = dom[node].parent THEN k
  ELSE previousElementSibling(node, k - 1)

\* A test that takes every element for a node.
IsElement(node) == TRUE

\* node.classList.contains(NODE_CSS_CLASS)
IsNode(node) == dom[node].cls = NODE_CSS_CLASS

\* getNodeIndex: while (node = node.previousElementSibling)
\*                 if (node.classList.contains(NODE_CSS_CLASS)) index++;
RECURSIVE getNodeIndexLoop(_, _)
getNodeIndexLoop(node, index) ==
  LET prev == previousElementSibling(node, node - 1)
  IN IF prev = 0 THEN index
     ELSE getNodeIndexLoop(prev, IF IsNode(prev) THEN index + 1 ELSE index)

getNodeIndex(node) == getNodeIndexLoop(node, 0)

\* getAddress, first loop: the indexes from the node up to the root element.
RECURSIVE indexesOf(_, _)
indexesOf(node, indexes) ==
  IF node # 0 /\ IsNode(node)
  THEN indexesOf(dom[node].parent, <<getNodeIndex(node)>> \o indexes)
  ELSE indexes

\* getAddress, second loop: data = data.children[i]; address.push(data).
\* A Data is identified by its path of child indices from this.data.
RECURSIVE addressOf(_, _, _)
addressOf(path, indexes, address) ==
  IF indexes = <<>> THEN address
  ELSE LET next == Append(path, Head(indexes))
       IN addressOf(next, Tail(indexes), Append(address, next))

\* TreeMap.getAddress(node)
getAddress(node) ==
  LET indexes == indexesOf(node, <<>>)
      shifted == IF indexes = <<>> THEN <<>> ELSE Tail(indexes)
  IN addressOf(<<>>, shifted, << <<>> >>)

----------------------------------------------------------------------------
(* TreeMap.layout as a stack machine: one frame per active call *)

\* The Data reached from d along the child indices of path.
RECURSIVE NodeAt(_, _)
NodeAt(d, path) ==
  IF path = <<>> THEN d ELSE NodeAt(At(d.kids, Head(path)), Tail(path))

\* A content rectangle that forgets the padding.
ContentUnpadded(width, height, padding) ==
  [x1 |-> QInt(0), y1 |-> QInt(0), x2 |-> width, y2 |-> height]

\* The content rectangle: y1 += padding[0]; x2 -= padding[1];
\*                        y2 -= padding[2]; x1 += padding[3];
Content(width, height, padding) ==
  [x1 |-> QInt(At(padding, 3)),
   y1 |-> QInt(At(padding, 0)),
   x2 |-> QSub(width, QInt(At(padding, 1))),
   y2 |-> QSub(height, QInt(At(padding, 2)))]

ContentWidth(c) == QSub(c.x2, c.x1)

ContentHeight(c) == QSub(c.y2, c.y1)

\* A check of the width alone.
TooNarrow(c) == QLess(ContentWidth(c), QInt(MinWidth))

\* if ((x2 - x1) < 40) return;  if ((y2 - y1) < 100) return;
TooSmall(c) ==
  \/ QLess(ContentWidth(c), QInt(MinWidth))
  \/ QLess(ContentHeight(c), QInt(MinHeight))

\* A space measured along the height.
Space2OfHeight(total, c) == QDiv(QMul(QInt(total), ContentHeight(c)), ContentWidth(c))

\* space * space, for space = scale * (x2 - x1)
Space2(total, c) == QDiv(QMul(QInt(total), ContentWidth(c)), ContentHeight(c))

\* A cutoff at 0.01 instead of 0.1.
CutoffLoose(sum, total) == QLess(Q(sum, total), Q(CutoffNum, 10 * CutoffDen))

\* if (sum / total < 0.1) break;
Cutoff(sum, total) == QLess(Q(sum, total), Q(CutoffNum, CutoffDen))

\* A strip thickness taken along the wrong axis.
HeightPxOfWidth(sum, total, c) == QDiv(QMul(QInt(sum), ContentWidth(c)), QInt(total))

\* heightPx = (sum / space) / scale
HeightPx(sum, total, c) == QDiv(QMul(QInt(sum), ContentHeight(c)), QInt(total))

\* widthPx = (size / height) / scale, for height = sum / space
WidthPx(size, sum, c) == QDiv(QMul(QInt(size), ContentWidth(c)), QInt(sum))

\* px(x) without the unit: Math.round(x)
px(x) == Round(x)

\* An outer loop that does not move on to the next strip.
SameStart(f) == f.start

\* start = end;
NextStart(f) == f.end

Frame(el, path, level, width, height) ==
  [el |-> el, path |-> path, level |-> level, width |-> width, height |-> height,
   pc |-> "enter", c |-> Content(width, height, options.padding),
   start |-> 0, end |-> 0, sum |-> 0, i |-> 0,
   x |-> QInt(0), y |-> QInt(0), heightPx |-> QInt(0)]

Top == stack[Len(stack)]

Return == SubSeq(stack, 1, Len(stack) - 1)

SetTop(f) == [stack EXCEPT ![Len(stack)] = f]

PcAfter(stk) == IF stk = <<>> THEN "done" ELSE "layout"

----------------------------------------------------------------------------
(* The inputs: Data trees, Options and container sizes *)

Weights == 0 .. MaxSize

\* The sequences over S of length 1 .. n
Seqs(S, n) == UNION {[1 .. k -> S] : k \in 1 .. n}

LeafList(ws) == [k \in 1 .. Len(ws) |-> Leaf(ws[k])]

RECURSIVE SumSizes(_, _, _)
SumSizes(children, from, to) ==
  IF ~(from < to) THEN 0
  ELSE At(children, from).size + SumSizes(children, from + 1, to)

TotalOf(children) == SumSizes(children, 0, Len(children))

\* Children lists of leaves, in any order (the engine does not sort them).
FlatLists == {LeafList(ws) : ws \in Seqs(Weights, MaxLen)}

\* A root is given its children's total or one more; a node with children
\* has a positive size.
FlatTrees ==
  UNION {{Node(s, ks) : s \in {t \in {TotalOf(ks), TotalOf(ks) + 1} : t >= 1}} :
         ks \in FlatLists}

\* Roots smaller than their children's total, against the documented "size
\* should be >= the sum of the children's size".
UndersizedTrees == {Node(1, LeafList(<<1, 1>>)), Node(2, LeafList(<<2, 1>>))}

GrandLists == {<<>>, LeafList(<<1, 1>>), LeafList(<<2, 0, 1>>)}

\* Two-level trees: the first child of a flat tree gets children of its own.
NestedTrees ==
  UNION {{[t EXCEPT !.kids[1] = Node(t.kids[1].size, g)] : g \in GrandLists} :
         t \in {u \in FlatTrees : u.kids[1].size > 0}}

\* size = 100 with the weights [85, 14, 1]
TruncationTree == Node(100, LeafList(<<85, 14, 1>>))

\* A root with children [A, B, C] where C.children = [D, E]
AddressTree ==
  Node(4, <<Leaf(1), Leaf(1), Node(2, LeafList(<<1, 1>>))>>)

Trees ==
  FlatTrees \cup NestedTrees \cup UndersizedTrees
    \cup {Leaf(5), Node(5, <<>>), TruncationTree, AddressTree}

\* The Options and the <<offsetWidth, offsetHeight>> of the container passed
\* to render.
Settings ==
  {<<newOptions, <<200, 300>>>>, <<newOptions, <<150, 300>>>>,
   <<newCaptionOptions, <<200, 300>>>>, <<newCaptionOptions, <<200, 110>>>>,
   <<customOptions, <<150, 300>>>>, <<customOptions, <<45, 300>>>>}

NoAddress == [node |-> 0, result |-> <<>>]

NoSpan == [called |-> FALSE, children |-> <<>>, space |-> QInt(1), start |-> 0,
           end |-> 0, sum |-> 0]

Init ==
  /\ data \in Trees
  /\ \E s \in Settings : options = s[1] /\ container = s[2]
  /\ dom = <<>>
  /\ stack = <<>>
  /\ pc = "start"
  /\ strips = <<>>
  /\ visits = <<>>
  /\ lastAddress = NoAddress
  /\ span = NoSpan

----------------------------------------------------------------------------
(* TreeMap.render and TreeMap.layout *)

\* render(container): create the root element, size it, append it and call
\* layout(dom, this.data, 0, width, height).
Render ==
  /\ pc = "start"
  /\ LET width == container[1]
         height == container[2]
         rect == [x |-> QInt(0), y |-> QInt(0), w |-> QInt(width), h |-> QInt(height)]
         style == [left |-> 0, width |-> width, top |-> 0, height |-> height]
     IN /\ dom' = dom \o createNode(0, <<>>, 0, style, rect, 0)
        /\ stack' = <<Frame(Len(dom) + 1, <<>>, 0, QInt(width), QInt(height))>>
  /\ pc' = "layout"
  /\ UNCHANGED <<data, options, container, strips, visits, lastAddress, span>>

\* layout, lines 149-163 and 173: the early returns, then x = x1, y = y1.
LayoutEnter ==
  /\ pc = "layout"
  /\ Top.pc = "enter"
  /\ LET f == Top
         node == NodeAt(data, f.path)
         visit(outcome) == [path |-> f.path, width |-> f.width, height |-> f.height,
                            outcome |-> outcome]
     IN IF ~node.has
        THEN /\ stack' = Return
             /\ visits' = Append(visits, visit("leaf"))
        ELSE IF TooSmall(f.c)
        THEN /\ stack' = Return
             /\ visits' = Append(visits, visit("small"))
        ELSE /\ stack' = SetTop([f EXCEPT !.pc = "strip", !.x = f.c.x1, !.y = f.c.y1])
             /\ visits' = Append(visits, visit("laid"))
  /\ pc' = PcAfter(stack')
  /\ UNCHANGED <<data, options, container, dom, strips, lastAddress, span>>

\* layout, lines 174-180: one test of the outer loop's condition and, when it
\* holds, selectSpan and the cutoff.
LayoutStrip ==
  /\ pc = "layout"
  /\ Top.pc = "strip"
  /\ LET f == Top
         node == NodeAt(data, f.path)
         children == node.kids
         total == node.size
     IN IF ~(f.start < Len(children))
        THEN /\ stack' = Return
             /\ UNCHANGED strips
        ELSE LET r == selectSpan(children, Space2(total, f.c), f.start)
                 strip(cut) == [path |-> f.path, start |-> f.start, end |-> r.end,
                                sum |-> r.sum, cut |-> cut, y |-> f.y]
             IN IF Cutoff(r.sum, total)
                THEN /\ stack' = Return
                     /\ strips' = Append(strips, strip(TRUE))
                ELSE /\ stack' = SetTop([f EXCEPT !.pc = "child", !.x = f.c.x1,
                                                  !.end = r.end, !.sum = r.sum,
                                                  !.i = f.start,
                                                  !.heightPx = HeightPx(r.sum, total, f.c)])
                     /\ strips' = Append(strips, strip(FALSE))
  /\ pc' = PcAfter(stack')
  /\ UNCHANGED <<data, options, container, dom, visits, lastAddress, span>>

\* layout, lines 181-198: one test of the inner loop's condition; when it
\* holds, the element of children[i] is created, placed and appended and
\* layout is called for it (x += widthPx follows the call and touches
\* nothing the call reads), otherwise y += heightPx; start = end.
LayoutChild ==
  /\ pc = "layout"
  /\ Top.pc = "child"
  /\ LET f == Top
         node == NodeAt(data, f.path)
     IN IF f.i < f.end
        THEN LET size == At(node.kids, f.i).size
                 widthPx == WidthPx(size, f.sum, f.c)
                 spacing == QInt(options.spacing)
                 style == [left |-> px(f.x),
                           width |-> px(QSub(widthPx, spacing)),
                           top |-> px(f.y),
                           height |-> px(QSub(f.heightPx, spacing))]
                 rect == [x |-> f.x, y |-> f.y, w |-> widthPx, h |-> f.heightPx]
                 path == Append(f.path, f.i)
             IN /\ dom' = dom \o createNode(f.el, path, f.level + 1, style, rect, Len(strips))
                /\ stack' = Append(SetTop([f EXCEPT !.x = QAdd(f.x, widthPx), !.i = f.i + 1]),
                                   Frame(Len(dom) + 1, path, f.level + 1,
                                         QSub(widthPx, QInt(Border)),
                                         QSub(f.heightPx, QInt(Border))))
        ELSE /\ stack' = SetTop([f EXCEPT !.pc = "strip", !.start = NextStart(f),
                                          !.y = QAdd(f.y, f.heightPx)])
             /\ UNCHANGED dom
  /\ pc' = "layout"
  /\ UNCHANGED <<data, options, container, strips, visits, lastAddress, span>>

\* getAddress(node) for an element of the rendered tree (render is
\* synchronous, so a lookup sees the finished layout).
GetAddress ==
  /\ pc = "done"
  /\ \E node \in 1 .. Len(dom) :
       lastAddress' = [node |-> node, result |-> getAddress(node)]
  /\ UNCHANGED <<data, options, container, dom, stack, pc, strips, visits, span>>

Next == Render \/ LayoutEnter \/ LayoutStrip \/ LayoutChild \/ GetAddress

Spec == Init /\ [][Next]_vars

----------------------------------------------------------------------------
(* selectSpan on its own: the inputs are drawn and the function applied *)

SpanWeights == Weights \cup {9, 10}

SpanLists == {LeafList(ws) : ws \in Seqs(SpanWeights, MaxLen)}

\* the values of space (positive)
Spaces == {<<1, 2>>, <<1, 1>>, <<3, 1>>, <<10, 1>>}

SpanInit ==
  /\ data = Leaf(1)
  /\ options = newOptions
  /\ container = <<0, 0>>
  /\ dom = <<>>
  /\ stack = <<>>
  /\ pc = "span"
  /\ strips = <<>>
  /\ visits = <<>>
  /\ lastAddress = NoAddress
  /\ span = NoSpan

SelectSpanCall ==
  /\ pc = "span"
  /\ ~span.called
  /\ \E children \in SpanLists, space \in Spaces :
       \E start \in 0 .. Len(children) - 1 :
         LET r == selectSpan(children, QMul(space, space), start)
         IN span' = [called |-> TRUE, children |-> children, space |-> space,
                     start |-> start, end |-> r.end, sum |-> r.sum]
  /\ UNCHANGED layoutVars

SpanNext == SelectSpanCall

SpanSpec == SpanInit /\ [][SpanNext]_vars

----------------------------------------------------------------------------
(* Properties of selectSpan, checked under SpanSpec *)

RECURSIVE MinSize(_, _, _)
MinSize(children, from, to) ==
  IF to = from + 1 THEN At(children, from).size
  ELSE LET m == MinSize(children, from, to - 1)
           z == At(children, to - 1).size
       IN IF z < m THEN z ELSE m

RECURSIVE MaxSizeOf(_, _, _)
MaxSizeOf(children, from, to) ==
  IF to = from + 1 THEN At(children, from).size
  ELSE LET m == MaxSizeOf(children, from, to - 1)
           z == At(children, to - 1).size
       IN IF z > m THEN z ELSE m

\* The squareness score of the run children[from .. to-1] (from < to) laid
\* in a strip of length space: max(max*space^2/sum^2, sum^2/(min*space^2)).
RunScore(children, space, from, to) ==
  LET sum == SumSizes(children, from, to)
      space2 == QMul(space, space)
  IN MathMax(JSDiv(QMul(QInt(MaxSizeOf(children, from, to)), space2), QInt(sum * sum)),
             JSDiv(QInt(sum * sum), QMul(QInt(MinSize(children, from, to)), space2)))

AllPositive(children) == \A k \in 1 .. Len(children) : children[k].size > 0

\* C1: selectSpan never returns an empty span: for every children list, every
\* start with 0 <= start < children.length and every positive space the
\* returned end satisfies start < end <= children.length.
SpanNeverEmpty ==
  span.called => span.start < span.end /\ span.end <= Len(span.children)

\* C1 witness: a call from a start past the first child whose span is the
\* starting item alone, the second candidate being rejected.
SpanNeverEmptyWitness ==
  /\ span.called
  /\ span.start > 0
  /\ span.end = span.start + 1
  /\ span.end < Len(span.children)

\* C6: for positive weights and positive space selectSpan returns the longest
\* run [start, end) along which the score never strictly increases from one
\* included item to the next: the first candidate whose score is strictly
\* greater than the score recorded before it is excluded and ends the span;
\* the returned sum is the sum of children[start .. end-1]; and for the
\* weights [10, 9, 1], space 10 and start 0 the third item is excluded.
SpanStopRule ==
  (span.called /\ AllPositive(span.children)) =>
    LET ch == span.children
        sc(to) == RunScore(ch, span.space, span.start, to)
    IN /\ span.start < span.end /\ span.end <= Len(ch)
       /\ \A to \in span.start + 1 .. span.end - 1 : ~JSGreater(sc(to + 1), sc(to))
       /\ span.end < Len(ch) => JSGreater(sc(span.end + 1), sc(span.end))
       /\ span.sum = SumSizes(ch, span.start, span.end)
       /\ (ch = LeafList(<<10, 9, 1>>) /\ span.space = QInt(10) /\ span.start = 0)
            => (span.end = 2 /\ span.sum = 19)

\* C6 witness: the call on [10, 9, 1] with space 10 from 0, which takes two
\* items and rejects the third.
SpanStopRuleWitness ==
  /\ span.called
  /\ span.children = LeafList(<<10, 9, 1>>)
  /\ span.space = QInt(10)
  /\ span.start = 0
  /\ span.end = 2

\* C9 as stated: once the running minimum of the span is 0 no further
\* candidate is added: a zero-weight candidate after positive ones ends the
\* span before it, and a span that starts at a zero weight has one item.
ZeroForcesShortSpan ==
  span.called =>
    \A to \in span.start + 1 .. span.end - 1 :
      MinSize(span.children, span.start, to) > 0

\* C9 amended: a zero-weight candidate that follows positive-weight items is
\* excluded and ends the span before it; a span that starts at a zero-weight
\* item is never ended by the score test and runs to the end of the list.
ZeroWeightSpan ==
  span.called =>
    LET ch == span.children
    IN /\ \A k \in span.start + 1 .. Len(ch) - 1 :
            (At(ch, k).size = 0 /\ \A j \in span.start .. k - 1 : At(ch, j).size > 0)
              => span.end <= k
       /\ At(ch, span.start).size = 0 => span.end = Len(ch)

\* C9 witness: a span that starts at a zero weight and takes in two more
\* items, the last of them positive.
ZeroWeightSpanWitness ==
  /\ span.called
  /\ At(span.children, span.start).size = 0
  /\ span.end = span.start + 3
  /\ At(span.children, span.end - 1).size > 0

----------------------------------------------------------------------------
(* Properties of layout, checked under Spec.  The content rectangle, the    *)
(* strip sums and the areas are recomputed here from the inputs alone.      *)

\* The ids of the node elements created for the Data at path
ElementsFor(path) ==
  {e \in 1 .. Len(dom) : dom[e].cls = NODE_CSS_CLASS /\ dom[e].path = path}

HasRect(path) == ElementsFor(path) # {}

\* The strip (its index in strips) the element of path was placed in
StripOf(path) == dom[CHOOSE e \in ElementsFor(path) : TRUE].strip

VisitsOf(path) == {k \in 1 .. Len(visits) : visits[k].path = path}

StripsOf(path) == {k \in 1 .. Len(strips) : strips[k].path = path}

\* Width and height left of an allotted width x height by the padding
\* [top, right, bottom, left]
PaddedWidth(v) == QSub(v.width, QInt(options.padding[2] + options.padding[4]))

PaddedHeight(v) == QSub(v.height, QInt(options.padding[1] + options.padding[3]))

Degenerate(v) ==
  QLess(PaddedWidth(v), QInt(40)) \/ QLess(PaddedHeight(v), QInt(100))

RootVisit == visits[1]

\* The conclusion of the truncation property: the children of sizes 85 and 14
\* have a rectangle each, in two separate strips, and the child of size 1 none.
TruncationShape ==
  /\ HasRect(<<0>>) /\ HasRect(<<1>>) /\ ~HasRect(<<2>>)
  /\ StripOf(<<0>>) # StripOf(<<1>>)

TruncationRun ==
  /\ pc = "done"
  /\ data = TruncationTree
  /\ ~Degenerate(RootVisit)

\* 200 * width^2 < 63 * height^2 of the content area
Narrow(v) ==
  QLess(QMul(QInt(200), QMul(PaddedWidth(v), PaddedWidth(v))),
        QMul(QInt(63), QMul(PaddedHeight(v), PaddedHeight(v))))

DegenerateRectangle ==
  \A k \in 1 .. Len(visits) :
    LET v == visits[k]
        node == NodeAt(data, v.path)
        kid(i) == Append(v.path, i)
    IN node.has =>
         IF Degenerate(v)
         THEN /\ v.outcome = "small"
              /\ StripsOf(v.path) = {}
              /\ \A i \in 0 .. Len(node.kids) - 1 :
                   ~HasRect(kid(i)) /\ VisitsOf(kid(i)) = {}
         ELSE /\ v.outcome = "laid"
              /\ node.kids # <<>> =>
                   \/ \E j \in StripsOf(v.path) : strips[j].start = 0
                   \/ (stack # <<>> /\ Top.path = v.path /\ Top.pc = "strip"
                         /\ Top.start = 0)

\* C3 witness: a finished render in which a node with children was allotted
\* at least 40 x 100 but is left with a content area too small by the padding.
DegenerateRectangleWitness ==
  /\ pc = "done"
  /\ \E k \in 1 .. Len(visits) :
       /\ NodeAt(data, visits[k].path).kids # <<>>
       /\ Degenerate(visits[k])
       /\ ~QLess(visits[k].width, QInt(40))
       /\ ~QLess(visits[k].height, QInt(100))

RECURSIVE SumOver(_, _)
SumOver(f, S) ==
  IF S = {} THEN QInt(0)
  ELSE LET e == CHOOSE x \in S : TRUE
       IN QAdd(f[e], SumOver(f, S \ {e}))

\* The elements placed so far for the children of strip s
StripElements(s) ==
  UNION {ElementsFor(Append(s.path, i)) : i \in s.start .. s.end - 1}

StripComplete(s) ==
  \A i \in s.start .. s.end - 1 : HasRect(Append(s.path, i))

\* C4: for every strip [start, end) that layout emits for a node of positive
\* size, each child's unrounded width x height is child.size / node.size of
\* the content area, the strip's thickness is (strip sum / node.size) x
\* content height, the children's widths add up to the content width and
\* their areas to (strip sum / node.size) x content area.
AreaConservation ==
  \A k \in 1 .. Len(strips) :
    LET s == strips[k]
        node == NodeAt(data, s.path)
        v == visits[CHOOSE j \in VisitsOf(s.path) : TRUE]
        cw == PaddedWidth(v)
        ch == PaddedHeight(v)
        area == QMul(cw, ch)
        sum == SumSizes(node.kids, s.start, s.end)
        els == StripElements(s)
        share(n) == QMul(Q(n, node.size), area)
        areas == [e \in els |-> QMul(dom[e].rect.w, dom[e].rect.h)]
        widths == [e \in els |-> dom[e].rect.w]
    IN (~s.cut /\ node.size > 0) =>
         /\ \A e \in els :
              /\ areas[e] = share(NodeAt(data, dom[e].path).size)
              /\ dom[e].rect.h = QMul(Q(sum, node.size), ch)
         /\ StripComplete(s) =>
              /\ SumOver(widths, els) = cw
              /\ SumOver(areas, els) = share(sum)

\* C4 witness: a finished layout with a strip of two or more children below
\* the root level.
AreaConservationWitness ==
  /\ pc = "done"
  /\ \E k \in 1 .. Len(strips) :
       /\ ~strips[k].cut
       /\ strips[k].path # <<>>
       /\ strips[k].end >= strips[k].start + 2
       /\ StripComplete(strips[k])

ParentPath(path) == SubSeq(path, 1, Len(path) - 1)

\* C5: for every node whose size is >= the sum of its children's sizes, every
\* child rectangle layout emits (before spacing and rounding) lies inside the
\* node's content rectangle (x1,y1)-(x2,y2).
Containment ==
  \A e \in 1 .. Len(dom) :
    (dom[e].cls = NODE_CSS_CLASS /\ dom[e].path # <<>>) =>
      LET parent == ParentPath(dom[e].path)
          node == NodeAt(data, parent)
          v == visits[CHOOSE j \in VisitsOf(parent) : TRUE]
          x1 == QInt(options.padding[4])
          y1 == QInt(options.padding[1])
          x2 == QSub(v.width, QInt(options.padding[2]))
          y2 == QSub(v.height, QInt(options.padding[3]))
          r == dom[e].rect
      IN node.size >= TotalOf(node.kids) =>
           /\ QLeq(x1, r.x)
           /\ QLeq(QAdd(r.x, r.w), x2)
           /\ QLeq(y1, r.y)
           /\ QLeq(QAdd(r.y, r.h), y2)

\* C5 witness: a finished layout under a non-zero padding with a rectangle
\* two levels down whose parent's size covers its children and which ends
\* exactly on the right edge of the content rectangle.
ContainmentWitness ==
  /\ pc = "done"
  /\ options.padding[4] > 0
  /\ \E e \in 1 .. Len(dom) :
       /\ dom[e].cls = NODE_CSS_CLASS
       /\ Len(dom[e].path) = 2
       /\ LET node == NodeAt(data, ParentPath(dom[e].path))
              v == visits[CHOOSE j \in VisitsOf(ParentPath(dom[e].path)) : TRUE]
          IN /\ node.size >= TotalOf(node.kids)
             /\ QAdd(dom[e].rect.x, dom[e].rect.w) = QSub(v.width, QInt(options.padding[2]))

\* The chain of Data from the root to the Data at path: the prefixes of path
Chain(path) == [k \in 1 .. Len(path) + 1 |-> SubSeq(path, 1, k - 1)]

\* C7: after render, for every element layout created, the index path
\* getAddress derives from the element's position among its node-class
\* siblings is the child-index path of the Data the element was created for:
\* getAddress returns the chain from the root to that Data (length path+1,
\* starting with the root, each next element children[i] of the one before;
\* path [2, 0] gives [root, C, D]).
AddressResolution ==
  (lastAddress.node # 0 /\ dom[lastAddress.node].cls = NODE_CSS_CLASS) =>
    LET path == dom[lastAddress.node].path
        result == lastAddress.result
    IN /\ result = Chain(path)
       /\ Len(result) = Len(path) + 1
       /\ result[1] = <<>>
       /\ \A k \in 1 .. Len(path) :
            /\ result[k + 1] = Append(result[k], path[k])
            /\ path[k] < Len(NodeAt(data, result[k]).kids)
       /\ NodeAt(data, result[Len(result)]) = NodeAt(data, path)

\* C7 witness: with captions among the siblings, the lookup of the element
\* created for D = root.children[2].children[0] returned [root, C, D].
AddressResolutionWitness ==
  /\ options.caption
  /\ data = AddressTree
  /\ lastAddress.node # 0
  /\ dom[lastAddress.node].path = <<2, 0>>
  /\ lastAddress.result = << <<>>, <<2>>, <<2, 0>> >>

\* C8: layout takes a node's children in input order, strip after strip, and
\* stops for the node at the first selected strip with sum / node.size < 0.1:
\* no child at an index >= that strip's start gets a rectangle or is recursed
\* into.  At every point the children with a rectangle are a prefix
\* children[0 .. k-1], created in increasing index order, one rectangle each.
CutoffAndOrder ==
  /\ \A k \in 1 .. Len(strips) :
       LET s == strips[k]
           node == NodeAt(data, s.path)
           later == {j \in StripsOf(s.path) : j > k}
           earlier == {j \in StripsOf(s.path) : j < k}
       IN /\ s.cut <=> (10 * SumSizes(node.kids, s.start, s.end) < node.size)
          /\ s.start = (IF earlier = {} THEN 0
                        ELSE strips[CHOOSE j \in earlier : \A i \in earlier : i <= j].end)
          /\ s.cut =>
               /\ later = {}
               /\ \A i \in s.start .. Len(node.kids) - 1 :
                    ~HasRect(Append(s.path, i)) /\ VisitsOf(Append(s.path, i)) = {}
  /\ \A e \in 1 .. Len(dom) :
       dom[e].cls = NODE_CSS_CLASS =>
         /\ ElementsFor(dom[e].path) = {e}
         /\ dom[e].path # <<>> =>
              LET i == dom[e].path[Len(dom[e].path)]
                  sib(j) == Append(ParentPath(dom[e].path), j)
              IN \A j \in 0 .. i - 1 :
                   HasRect(sib(j)) /\ \A b \in ElementsFor(sib(j)) : b < e

\* C8 witness: a finished layout whose root was cut off at its third child
\* after two children got their rectangles.
CutoffAndOrderWitness ==
  /\ pc = "done"
  /\ \E k \in 1 .. Len(strips) :
       /\ strips[k].cut
       /\ strips[k].path = <<>>
       /\ strips[k].start = 2
       /\ HasRect(<<0>>) /\ HasRect(<<1>>)

RECURSIVE Depth(_)
Depth(d) ==
  IF d.kids = <<>> THEN 0
  ELSE LET ds == {Depth(d.kids[k]) : k \in 1 .. Len(d.kids)}
       IN 1 + CHOOSE m \in ds : \A n \in ds : n <= m

\* Every strip loop iteration either broke on the cutoff or selected a span
\* with end > start, and a node with n children has at most n strips.
StripsBounded ==
  \A k \in 1 .. Len(strips) :
    /\ strips[k].cut \/ strips[k].end > strips[k].start
    /\ Cardinality(StripsOf(strips[k].path)) <= Len(NodeAt(data, strips[k].path).kids)

\* The recursion is no deeper than the tree.
DepthBounded ==
  /\ Len(stack) <= Depth(data) + 1
  /\ \A k \in 1 .. Len(stack) : stack[k].level = k - 1 /\ Len(stack[k].path) = k - 1

\* An upper bound of the steps layout takes for the Data d: one entry, and for
\* n children at most n + 1 tests of the strip loop, n placements and n ends
\* of a strip, plus the children's own layouts.
RECURSIVE Work(_)
Work(d) ==
  IF ~d.has THEN 1
  ELSE LET W[k \in 0 .. Len(d.kids)] ==
             IF k = 0 THEN 0 ELSE W[k - 1] + Work(d.kids[k])
       IN 3 * Len(d.kids) + 2 + W[Len(d.kids)]

\* The work of the children at the indices from .. n-1 of node
RECURSIVE WorkFrom(_, _)
WorkFrom(node, from) ==
  IF ~(from < Len(node.kids)) THEN 0
  ELSE Work(At(node.kids, from)) + WorkFrom(node, from + 1)

\* The steps a frame still has to take, at most
Remaining(f) ==
  LET node == NodeAt(data, f.path)
      n == Len(node.kids)
  IN CASE f.pc = "enter" -> Work(node)
       [] f.pc = "strip" -> 3 * (n - f.start) + 1 + WorkFrom(node, f.start)
       [] f.pc = "child" -> (n - f.i) + 2 * (n - f.end) + 2 + WorkFrom(node, f.i)

\* The variant of layout: the steps the active calls still have to take
Variant ==
  LET V[k \in 0 .. Len(stack)] ==
        IF k = 0 THEN 0 ELSE V[k - 1] + Remaining(stack[k])
  IN V[Len(stack)]

\* While layout runs one of its steps can be taken (their guards are
\* pc = "layout" and the position of the innermost call), and the variant
\* counts what is left: it is 0 exactly when render has returned.
LayoutProgress ==
  /\ pc = "layout" =>
       (stack # <<>> /\ Top.pc \in {"enter", "strip", "child"} /\ Variant > 0)
  /\ pc = "done" => (stack = <<>> /\ Variant = 0)

\* C10: for every finite Data tree and every container size render/layout
\* terminates: each iteration of the strip loop breaks on the cutoff or moves
\* start to an end > start, so a node with n children has at most n strips,
\* and the recursion goes no deeper than the tree.  Termination is stated by
\* a variant: every step of layout lowers a natural number that the tree
\* bounds, and a step can be taken until render has returned.
Termination ==
  /\ [](StripsBounded /\ DepthBounded /\ LayoutProgress)
  /\ [][pc = "layout" => Variant' < Variant]_vars
  /\ [][pc = "start" => Variant' = Work(data)]_vars

\* C10 witness: a finished render that went two levels down and gave a node
\* as many strips as it has children (two or more).
TerminationWitness ==
  /\ pc = "done"
  /\ \E k \in 1 .. Len(visits) : Len(visits[k].path) = 2
  /\ \E k \in 1 .. Len(strips) :
       LET n == Len(NodeAt(data, strips[k].path).kids)
       IN n >= 2 /\ Cardinality(StripsOf(strips[k].path)) = n

====
